---- MODULE Spec2Model ----
(***************************************************************************)
(* Model of the packaged C++ console push-notification sample              *)
(* (Samples/Notifications/Push/cpp-console-packaged/cpp-console.cpp).      *)
(*                                                                         *)
(* Three threads of control are modelled:                                  *)
(*   - main(): registration, activation dispatch, the three branches and   *)
(*     the final unregistration;                                           *)
(*   - the RequestChannelAsync coroutine, resumed by the platform when the *)
(*     channel operation completes;                                        *)
(*   - the platform: progress signals, completion of the channel           *)
(*     operation, the timer of wait_for, foreground deliveries.            *)
(* `trace` records, in order, every platform API call and every line of    *)
(* output main's thread makes; `cbTrace` records the output (std::cout,    *)
(* LOG_HR_MSG) and calls of the code the platform calls back: the Progress *)
(* handler, the continuation of the coroutine, the PushReceived handler.   *)
(***************************************************************************)
EXTENDS Integers, Sequences, FiniteSets

\* ---------------------------------------------------------------- bounds
\* Progress signals the platform raises for one channel operation.
MaxSignals == 2
\* Foreground notifications delivered in one run.
MaxNotifications == 2
\* Seconds added by one tick of the wait_for timer.
TickSeconds == 150

\* ------------------------------------------------------- program constants
\* task.wait_for(std::chrono::seconds(300))
TimeoutSeconds == 300

\* ------------------------------------------------------------ value sets
Null == "nullptr"
Channels == {"channelX", "channelY"}
ActivationKinds == {"Launch", "Push", "File", "Protocol"}
ChannelStatuses == {"InProgress", "InProgressRetry", "CompletedSuccess", "CompletedFailure"}
ProgressStatuses == {"InProgress", "InProgressRetry"}
\* Raw payloads (byte sequences): empty, text with an embedded NUL, a high byte.
Payloads == {<<>>, <<72, 0, 105>>, <<200>>}
\* Payloads of the foreground deliveries.
ForegroundPayloads == {<<72, 0, 105>>, <<200>>}
\* retryCount values carried by InProgressRetry signals.
RetryCounts == {1, 2}
NoResult == [status |-> "None", channel |-> Null]

VARIABLES
    supportedBoth,     \* IsActivatorSupported(PushTrigger | ComActivator)
    supportedCom,      \* IsActivatorSupported(ComActivator)
    activationKind,    \* the kind in the OS activation record
    activationPayload, \* the payload in a Push activation record
    pc,                \* position of main()
    kind,              \* main's local `kind`
    registered,        \* activators registered with the OS
    channel,           \* main's local `channel`
    channelAlive,      \* the channel object held by main is alive
    waitStatus,        \* value returned by task.wait_for
    subscriptions,     \* channels PushReceived was subscribed on, in order
    deferral,          \* "none", "held", "released"
    payload,           \* main's local `payload` (Push branch)
    payloadString,     \* main's local `payloadString` (Push branch)
    opStatus,          \* channelOperation: "None", "Started", "Completed", "Canceled"
    opResult,          \* result of channelOperation
    signals,           \* progress signals raised so far
    taskStatus,        \* `task`: "None", "Started", "Completed", "Canceled"
    taskResult,        \* value co_returned by RequestChannelAsync
    coPc,              \* position of the RequestChannelAsync coroutine
    elapsed,           \* seconds waited in wait_for
    completedAt,       \* `elapsed` when the coroutine co_returned, -1 before
    notifs,            \* foreground deliveries: payload, handled flag, callback position
    trace,             \* API calls and output made on main's thread, in order
    cbTrace            \* output made by the code the platform calls back, in order

vars == <<supportedBoth, supportedCom, activationKind, activationPayload, pc, kind,
          registered, channel, channelAlive, waitStatus, subscriptions, deferral,
          payload, payloadString, opStatus, opResult, signals, taskStatus,
          taskResult, coPc, elapsed, completedAt, notifs, trace, cbTrace>>

envVars == <<supportedBoth, supportedCom, activationKind, activationPayload>>
pushVars == <<deferral, payload, payloadString>>
opVars == <<opStatus, opResult, signals>>
taskVars == <<taskStatus, taskResult, coPc, completedAt>>
launchVars == <<channel, channelAlive, waitStatus, subscriptions>>

\* ---------------------------------------------------------------- helpers
Event(op, arg) == [op |-> op, arg |-> arg]
Emit(op, arg) == Append(trace, Event(op, arg))
CbEmit(op, arg) == Append(cbTrace, Event(op, arg))
Positions(op) == {i \in DOMAIN trace : trace[i].op = op}
Count(op) == Cardinality(Positions(op))
Occurs(op) == \E i \in DOMAIN trace : trace[i].op = op
CbCount(op) == Cardinality({i \in DOMAIN cbTrace : cbTrace[i].op = op})
CbOccurs(op) == \E i \in DOMAIN cbTrace : cbTrace[i].op = op
Min(S) == CHOOSE x \in S : \A y \in S : x <= y
\* every occurrence of a precedes every occurrence of b
Precedes(a, b) == \A i \in Positions(a), j \in Positions(b) : i < j

\* std::string payloadString(payload.begin(), payload.end()):
\* each uint8_t is converted to a (signed) char.
ToChar(b) == IF b >= 128 THEN b - 256 ELSE b
PayloadToString(p) == [i \in 1..Len(p) |-> ToChar(p[i])]
\* operator<<(const char*) writes up to the first NUL character.
CStr(s) == IF \E i \in 1..Len(s) : s[i] = 0
           THEN SubSeq(s, 1, Min({i \in 1..Len(s) : s[i] = 0}) - 1)
           ELSE s

\* ------------------------------------------------------------------ Init
Init ==
    /\ supportedBoth \in BOOLEAN
    /\ supportedCom \in BOOLEAN
    /\ activationKind \in ActivationKinds
    /\ activationPayload \in Payloads
    /\ (activationKind # "Push" => activationPayload = <<>>)
    /\ pc = "RegisterActivator"
    /\ kind = "Unread"
    /\ registered = {}
    /\ channel = Null
    /\ channelAlive = FALSE
    /\ waitStatus = "None"
    /\ subscriptions = <<>>
    /\ deferral = "none"
    /\ payload = <<>>
    /\ payloadString = <<>>
    /\ opStatus = "None"
    /\ opResult = NoResult
    /\ signals = <<>>
    /\ taskStatus = "None"
    /\ taskResult = Null
    /\ coPc = "none"
    /\ elapsed = 0
    /\ completedAt = -1
    /\ notifs = <<>>
    /\ trace = <<>>
    /\ cbTrace = <<>>

\* faulty variant: RegisterActivator is called without asking IsActivatorSupported
Main_RegisterActivator_Unconditional ==
    /\ pc = "RegisterActivator"
    /\ registered' = registered \cup {"PushTrigger", "ComActivator"}
    /\ trace' = Emit("call:RegisterActivator", {"PushTrigger", "ComActivator"})
    /\ pc' = "GetActivatedEventArgs"
    /\ UNCHANGED <<envVars, kind, launchVars, pushVars, opVars, taskVars, elapsed, notifs, cbTrace>>

\* ------------------------------------------------------------------ main
\* lines 104-111
Main_RegisterActivator ==
    /\ pc = "RegisterActivator"
    /\ IF supportedBoth
       THEN /\ registered' = registered \cup {"PushTrigger", "ComActivator"}
            /\ trace' = Emit("call:RegisterActivator", {"PushTrigger", "ComActivator"})
       ELSE UNCHANGED <<registered, trace>>
    /\ pc' = "GetActivatedEventArgs"
    /\ UNCHANGED <<envVars, kind, launchVars, pushVars, opVars, taskVars, elapsed, notifs, cbTrace>>

\* lines 113-114
Main_GetActivatedEventArgs ==
    /\ pc = "GetActivatedEventArgs"
    /\ kind' = activationKind
    /\ trace' = Emit("call:GetActivatedEventArgs", activationKind)
    /\ pc' = "Switch"
    /\ UNCHANGED <<envVars, registered, launchVars, pushVars, opVars, taskVars, elapsed, notifs, cbTrace>>

\* faulty variant: the default label falls into the Launch case
SwitchTarget_DefaultIsLaunch(k) ==
    CASE k = "Push" -> "PushGetDeferral"
      [] OTHER -> "RequestChannel"

\* faulty variant: the Push label is missing, so Push falls into the Launch case
SwitchTarget_PushIsLaunch(k) ==
    CASE k = "Launch" -> "RequestChannel"
      [] k = "Push" -> "RequestChannel"
      [] OTHER -> "DefaultDisplay"

\* line 115: the case labels of the switch
SwitchTarget(k) ==
    CASE k = "Launch" -> "RequestChannel"
      [] k = "Push" -> "PushGetDeferral"
      [] OTHER -> "DefaultDisplay"

Main_Switch ==
    /\ pc = "Switch"
    /\ pc' = SwitchTarget(kind)
    /\ UNCHANGED <<envVars, kind, registered, launchVars, pushVars, opVars, taskVars,
                   elapsed, notifs, trace, cbTrace>>

\* ----------------------------------------------------------- Push branch
\* faulty variant: the Push branch reads the payload without taking a deferral
Push_GetDeferral_Skipped ==
    /\ pc = "PushGetDeferral"
    /\ pc' = "PushPayload"
    /\ UNCHANGED <<envVars, kind, registered, launchVars, pushVars, opVars, taskVars,
                   elapsed, notifs, trace, cbTrace>>

\* lines 146-149
Push_GetDeferral ==
    /\ pc = "PushGetDeferral"
    /\ deferral' = "held"
    /\ trace' = Emit("call:GetDeferral", "-")
    /\ pc' = "PushPayload"
    /\ UNCHANGED <<envVars, kind, registered, launchVars, payload, payloadString,
                   opVars, taskVars, elapsed, notifs, cbTrace>>

\* line 151
Push_Payload ==
    /\ pc = "PushPayload"
    /\ payload' = activationPayload
    /\ trace' = Emit("call:Payload", activationPayload)
    /\ pc' = "PushDecode"
    /\ UNCHANGED <<envVars, kind, registered, launchVars, deferral, payloadString,
                   opVars, taskVars, elapsed, notifs, cbTrace>>

\* lines 154-156
Push_Display ==
    /\ pc = "PushDecode"
    /\ payloadString' = PayloadToString(payload)
    /\ trace' = trace \o <<Event("cout:Background", CStr(PayloadToString(payload))),
                           Event("cout:PressEnterToExit", "-")>>
    /\ pc' = "PushComplete"
    /\ UNCHANGED <<envVars, kind, registered, launchVars, deferral, payload,
                   opVars, taskVars, elapsed, notifs, cbTrace>>

\* faulty variant: the Push branch forgets to complete the deferral
Push_Complete_Forgotten ==
    /\ pc = "PushComplete"
    /\ pc' = "PushWaitEnter"
    /\ UNCHANGED <<envVars, kind, registered, launchVars, pushVars, opVars, taskVars,
                   elapsed, notifs, trace, cbTrace>>

\* line 160
Push_Complete ==
    /\ pc = "PushComplete"
    /\ deferral' = "released"
    /\ trace' = Emit("call:Deferral.Complete", "-")
    /\ pc' = "PushWaitEnter"
    /\ UNCHANGED <<envVars, kind, registered, launchVars, payload, payloadString,
                   opVars, taskVars, elapsed, notifs, cbTrace>>

\* faulty variant: the Push branch ends without reading a line
Push_WaitEnter_NoWait ==
    /\ pc = "PushWaitEnter"
    /\ pc' = "UnregisterActivator"
    /\ UNCHANGED <<envVars, kind, registered, launchVars, pushVars, opVars, taskVars,
                   elapsed, notifs, trace, cbTrace>>

\* line 161: std::cin.ignore() returns when the user has pressed Enter
Push_WaitEnter ==
    /\ pc = "PushWaitEnter"
    /\ trace' = Emit("cin:ignore", "-")
    /\ pc' = "UnregisterActivator"
    /\ UNCHANGED <<envVars, kind, registered, launchVars, pushVars, opVars, taskVars,
                   elapsed, notifs, cbTrace>>

\* -------------------------------------------------------- default branch
\* lines 165-168
Default_Display ==
    /\ pc = "DefaultDisplay"
    /\ trace' = trace \o <<Event("cout:UnexpectedActivationType", "-"),
                           Event("cout:PressEnterToExit", "-")>>
    /\ pc' = "DefaultWaitEnter"
    /\ UNCHANGED <<envVars, kind, registered, launchVars, pushVars, opVars, taskVars,
                   elapsed, notifs, cbTrace>>

\* lines 169-170
Default_WaitEnter ==
    /\ pc = "DefaultWaitEnter"
    /\ trace' = Emit("cin:ignore", "-")
    /\ pc' = "UnregisterActivator"
    /\ UNCHANGED <<envVars, kind, registered, launchVars, pushVars, opVars, taskVars,
                   elapsed, notifs, cbTrace>>

\* ---------------------------------------------------------- Launch branch
\* lines 124, 75, 24-46: RequestChannel() calls RequestChannelAsync(), which runs
\* on main's thread up to its first suspension: it creates the channel operation,
\* attaches the Progress handler and suspends in co_await.
RequestChannel_Start ==
    /\ pc = "RequestChannel"
    /\ opStatus' = "Started"
    /\ taskStatus' = "Started"
    /\ coPc' = "awaiting"
    /\ trace' = trace \o <<Event("call:CreateChannelAsync", "-"),
                           Event("call:Progress", "-")>>
    /\ pc' = "wait_for"
    /\ UNCHANGED <<envVars, kind, registered, launchVars, pushVars, opResult, signals,
                   taskResult, completedAt, elapsed, notifs, cbTrace>>

\* faulty variant: the retry warning carries a constant instead of args.retryCount
ProgressHandler_WrongCount(args) ==
    IF args.status = "InProgress"
    THEN <<Event("cout:RequestInProgress", "-")>>
    ELSE IF args.status = "InProgressRetry"
         THEN <<Event("log:BackOffRetry", 0)>>
         ELSE <<>>

\* lines 29-44: the Progress handler, as the output it produces for one signal
ProgressHandler(args) ==
    IF args.status = "InProgress"
    THEN <<Event("cout:RequestInProgress", "-")>>
    ELSE IF args.status = "InProgressRetry"
         THEN <<Event("log:BackOffRetry", args.retryCount)>>
         ELSE <<>>

\* The platform raises a progress signal; the handler runs synchronously.
Platform_Progress ==
    /\ pc # "Done"
    /\ opStatus = "Started"
    /\ Len(signals) < MaxSignals
    /\ \E st \in ProgressStatuses, rc \in {0} \cup RetryCounts :
          /\ (st = "InProgress") = (rc = 0)
          /\ LET args == [status |-> st, retryCount |-> rc]
             IN /\ signals' = Append(signals, args)
                /\ cbTrace' = cbTrace \o ProgressHandler(args)
    /\ UNCHANGED <<envVars, pc, kind, registered, launchVars, pushVars, opStatus,
                   opResult, taskVars, elapsed, notifs, trace>>

\* The platform completes the channel operation with a result.
Platform_Complete ==
    /\ pc # "Done"
    /\ opStatus = "Started"
    /\ \E st \in ChannelStatuses, ch \in Channels \cup {Null} :
          /\ (st = "CompletedSuccess") = (ch # Null)
          /\ opResult' = [status |-> st, channel |-> ch]
    /\ opStatus' = "Completed"
    /\ UNCHANGED <<envVars, pc, kind, registered, launchVars, pushVars, signals,
                   taskVars, elapsed, notifs, trace, cbTrace>>

\* One tick of the timer behind task.wait_for(300 s), line 76.
Tick ==
    /\ pc = "wait_for"
    /\ elapsed < TimeoutSeconds
    /\ elapsed' = IF elapsed + TickSeconds >= TimeoutSeconds
                  THEN TimeoutSeconds ELSE elapsed + TickSeconds
    /\ UNCHANGED <<envVars, pc, kind, registered, launchVars, pushVars, opVars,
                   taskVars, notifs, trace, cbTrace>>

\* faulty variant: CompletedFailure is handled by the final else
ResultBranch_NoFailureCase(status) ==
    IF status = "CompletedSuccess" THEN "success" ELSE "other"

\* lines 48, 60, 65: the branch taken on the result's status
ResultBranch(status) ==
    IF status = "CompletedSuccess" THEN "success"
    ELSE IF status = "CompletedFailure" THEN "failure"
    ELSE "other"

\* line 46: co_await returns once the channel operation has completed.
Co_Resume ==
    /\ pc # "Done"
    /\ coPc = "awaiting"
    /\ opStatus = "Completed"
    /\ coPc' = ResultBranch(opResult.status)
    /\ UNCHANGED <<envVars, pc, kind, registered, launchVars, pushVars, opVars,
                   taskStatus, taskResult, completedAt, elapsed, notifs, trace, cbTrace>>

\* co_return: the task becomes Completed unless it was cancelled meanwhile.
SetCompleted(status) == IF status = "Started" THEN "Completed" ELSE status

\* lines 50-54
Co_LogUri ==
    /\ pc # "Done"
    /\ coPc = "success"
    /\ cbTrace' = CbEmit("cout:ChannelURI", opResult.channel)
    /\ coPc' = "expiry"
    /\ UNCHANGED <<envVars, pc, kind, registered, launchVars, pushVars, opVars,
                   taskStatus, taskResult, completedAt, elapsed, notifs, trace>>

\* lines 52, 55
Co_LogExpiry ==
    /\ pc # "Done"
    /\ coPc = "expiry"
    /\ cbTrace' = CbEmit("cout:ChannelExpiration", opResult.channel)
    /\ coPc' = "return"
    /\ UNCHANGED <<envVars, pc, kind, registered, launchVars, pushVars, opVars,
                   taskStatus, taskResult, completedAt, elapsed, notifs, trace>>

\* line 58
Co_ReturnChannel ==
    /\ pc # "Done"
    /\ coPc = "return"
    /\ taskResult' = opResult.channel
    /\ taskStatus' = SetCompleted(taskStatus)
    /\ completedAt' = elapsed
    /\ coPc' = "done"
    /\ UNCHANGED <<envVars, pc, kind, registered, launchVars, pushVars, opVars,
                   elapsed, notifs, trace, cbTrace>>

\* lines 60-63
Co_Failure ==
    /\ pc # "Done"
    /\ coPc = "failure"
    /\ cbTrace' = CbEmit("log:CriticalFailure", "-")
    /\ taskResult' = Null
    /\ taskStatus' = SetCompleted(taskStatus)
    /\ completedAt' = elapsed
    /\ coPc' = "done"
    /\ UNCHANGED <<envVars, pc, kind, registered, launchVars, pushVars, opVars,
                   elapsed, notifs, trace>>

\* lines 65-69
Co_Other ==
    /\ pc # "Done"
    /\ coPc = "other"
    /\ cbTrace' = CbEmit("log:OtherFailure", "-")
    /\ taskResult' = Null
    /\ taskStatus' = SetCompleted(taskStatus)
    /\ completedAt' = elapsed
    /\ coPc' = "done"
    /\ UNCHANGED <<envVars, pc, kind, registered, launchVars, pushVars, opVars,
                   elapsed, notifs, trace>>

\* faulty variant: only a cancelled task counts as a failed wait
WaitFailed_OnlyCanceled(status) == status = "Canceled"

\* line 76: the condition of the if
WaitFailed(status) == status # "Completed"

\* faulty variant: the wait has no timeout (task.get())
RequestChannel_wait_for_NoTimeout ==
    /\ pc = "wait_for"
    /\ taskStatus # "Started"
    /\ waitStatus' = taskStatus
    /\ pc' = IF taskStatus # "Completed" THEN "Cancel" ELSE "GetResults"
    /\ UNCHANGED <<envVars, kind, registered, channel, channelAlive, subscriptions,
                   pushVars, opVars, taskVars, elapsed, notifs, trace, cbTrace>>

\* faulty variant: the status is read without waiting
RequestChannel_wait_for_NoWait ==
    /\ pc = "wait_for"
    /\ waitStatus' = taskStatus
    /\ pc' = IF taskStatus # "Completed" THEN "Cancel" ELSE "GetResults"
    /\ UNCHANGED <<envVars, kind, registered, channel, channelAlive, subscriptions,
                   pushVars, opVars, taskVars, elapsed, notifs, trace, cbTrace>>

\* line 76: wait_for returns when the task has left Started or the timeout has
\* expired, with the task's status at that moment.
RequestChannel_wait_for ==
    /\ pc = "wait_for"
    /\ (taskStatus # "Started" \/ elapsed >= TimeoutSeconds)
    /\ waitStatus' = taskStatus
    /\ pc' = IF WaitFailed(taskStatus) THEN "Cancel" ELSE "GetResults"
    /\ UNCHANGED <<envVars, kind, registered, channel, channelAlive, subscriptions,
                   pushVars, opVars, taskVars, elapsed, notifs, trace, cbTrace>>

\* line 78: task.Cancel() acts on the coroutine's operation object only; nothing
\* in RequestChannelAsync forwards it to channelOperation.
RequestChannel_Cancel ==
    /\ pc = "Cancel"
    /\ taskStatus' = IF taskStatus = "Started" THEN "Canceled" ELSE taskStatus
    /\ trace' = Emit("call:task.Cancel", "-")
    /\ pc' = "ReturnNull"
    /\ UNCHANGED <<envVars, kind, registered, launchVars, pushVars, opVars,
                   taskResult, coPc, completedAt, elapsed, notifs, cbTrace>>

\* lines 79, 124
RequestChannel_ReturnNull ==
    /\ pc = "ReturnNull"
    /\ channel' = Null
    /\ channelAlive' = FALSE
    /\ pc' = "CheckChannel"
    /\ UNCHANGED <<envVars, kind, registered, waitStatus, subscriptions, pushVars,
                   opVars, taskVars, elapsed, notifs, trace, cbTrace>>

\* faulty variant: the result of the task is dropped
RequestChannel_GetResults_Dropped ==
    /\ pc = "GetResults"
    /\ channel' = Null
    /\ channelAlive' = FALSE
    /\ pc' = "CheckChannel"
    /\ UNCHANGED <<envVars, kind, registered, waitStatus, subscriptions, pushVars,
                   opVars, taskVars, elapsed, notifs, trace, cbTrace>>

\* faulty variant: the channel is returned without a reference that keeps it alive
RequestChannel_GetResults_NotKeptAlive ==
    /\ pc = "GetResults"
    /\ channel' = taskResult
    /\ channelAlive' = FALSE
    /\ pc' = "CheckChannel"
    /\ UNCHANGED <<envVars, kind, registered, waitStatus, subscriptions, pushVars,
                   opVars, taskVars, elapsed, notifs, trace, cbTrace>>

\* lines 82-83, 124
RequestChannel_GetResults ==
    /\ pc = "GetResults"
    /\ channel' = taskResult
    /\ channelAlive' = (taskResult # Null)
    /\ pc' = "CheckChannel"
    /\ UNCHANGED <<envVars, kind, registered, waitStatus, subscriptions, pushVars,
                   opVars, taskVars, elapsed, notifs, trace, cbTrace>>

\* line 127: if (channel)
HasChannel(ch) == ch # Null

\* lines 127-134, 87-100
Launch_CheckChannel ==
    /\ pc = "CheckChannel"
    /\ IF HasChannel(channel)
       THEN /\ subscriptions' = Append(subscriptions, channel)
            /\ trace' = Emit("call:PushReceived", channel)
       ELSE /\ trace' = Emit("cout:ErrorObtainingChannelURI", "-")
            /\ UNCHANGED subscriptions
    /\ pc' = "LaunchPrompt"
    /\ UNCHANGED <<envVars, kind, registered, channel, channelAlive, waitStatus,
                   pushVars, opVars, taskVars, elapsed, notifs, cbTrace>>

\* line 136
Launch_Prompt ==
    /\ pc = "LaunchPrompt"
    /\ trace' = Emit("cout:PressEnterAnyTime", "-")
    /\ pc' = "LaunchWaitEnter"
    /\ UNCHANGED <<envVars, kind, registered, launchVars, pushVars, opVars, taskVars,
                   elapsed, notifs, cbTrace>>

\* faulty variant: the Launch case leaves main without the unregistration
Launch_WaitEnter_Returns ==
    /\ pc = "LaunchWaitEnter"
    /\ trace' = Emit("cin:ignore", "-")
    /\ channelAlive' = FALSE
    /\ pc' = "Done"
    /\ UNCHANGED <<envVars, kind, registered, channel, waitStatus, subscriptions,
                   pushVars, opVars, taskVars, elapsed, notifs, cbTrace>>

\* lines 137-139: std::cin.ignore() returns; `channel` goes out of scope.
Launch_WaitEnter ==
    /\ pc = "LaunchWaitEnter"
    /\ trace' = Emit("cin:ignore", "-")
    /\ channelAlive' = FALSE
    /\ pc' = "UnregisterActivator"
    /\ UNCHANGED <<envVars, kind, registered, channel, waitStatus, subscriptions,
                   pushVars, opVars, taskVars, elapsed, notifs, cbTrace>>

\* ------------------------------------------------- foreground deliveries
\* The platform raises PushReceived on a subscribed, live channel; deliveries are
\* made one at a time.
CallbackIdle == \A i \in DOMAIN notifs : notifs[i].at = "returned"

Platform_Deliver ==
    /\ pc # "Done"
    /\ subscriptions # <<>>
    /\ channelAlive
    /\ CallbackIdle
    /\ Len(notifs) < MaxNotifications
    /\ \E p \in ForegroundPayloads :
          notifs' = Append(notifs, [payload |-> p, handled |-> FALSE, at |-> "entered"])
    /\ UNCHANGED <<envVars, pc, kind, registered, launchVars, pushVars, opVars,
                   taskVars, elapsed, trace, cbTrace>>

Current == Len(notifs)

\* lines 91-95
Handler_Display ==
    /\ pc # "Done"
    /\ notifs # <<>>
    /\ notifs[Current].at = "entered"
    /\ cbTrace' = CbEmit("cout:Foreground", PayloadToString(notifs[Current].payload))
    /\ notifs' = [notifs EXCEPT ![Current].at = "displayed"]
    /\ UNCHANGED <<envVars, pc, kind, registered, launchVars, pushVars, opVars,
                   taskVars, elapsed, trace>>

\* faulty variant: the handler returns without marking the notification handled
Handler_Handled_Skipped ==
    /\ pc # "Done"
    /\ notifs # <<>>
    /\ notifs[Current].at = "displayed"
    /\ notifs' = [notifs EXCEPT ![Current].at = "returned"]
    /\ UNCHANGED <<envVars, pc, kind, registered, launchVars, pushVars, opVars,
                   taskVars, elapsed, trace, cbTrace>>

\* lines 98-99: args.Handled(true), then the callback returns
Handler_Handled ==
    /\ pc # "Done"
    /\ notifs # <<>>
    /\ notifs[Current].at = "displayed"
    /\ notifs' = [notifs EXCEPT ![Current].handled = TRUE, ![Current].at = "returned"]
    /\ cbTrace' = CbEmit("call:Handled", TRUE)
    /\ UNCHANGED <<envVars, pc, kind, registered, launchVars, pushVars, opVars,
                   taskVars, elapsed, trace>>

\* --------------------------------------------------------- end of main
\* faulty variant: the unregistration names both activators
Main_UnregisterActivator_Both ==
    /\ pc = "UnregisterActivator"
    /\ IF supportedCom
       THEN /\ registered' = registered \ {"PushTrigger", "ComActivator"}
            /\ trace' = Emit("call:UnregisterActivator", {"PushTrigger", "ComActivator"})
       ELSE UNCHANGED <<registered, trace>>
    /\ pc' = "Done"
    /\ UNCHANGED <<envVars, kind, launchVars, pushVars, opVars, taskVars, elapsed, notifs, cbTrace>>

\* lines 173-178
Main_UnregisterActivator ==
    /\ pc = "UnregisterActivator"
    /\ IF supportedCom
       THEN /\ registered' = registered \ {"ComActivator"}
            /\ trace' = Emit("call:UnregisterActivator", {"ComActivator"})
       ELSE UNCHANGED <<registered, trace>>
    /\ pc' = "Done"
    /\ UNCHANGED <<envVars, kind, launchVars, pushVars, opVars, taskVars, elapsed, notifs, cbTrace>>

Next ==
    \/ Main_RegisterActivator
    \/ Main_GetActivatedEventArgs
    \/ Main_Switch
    \/ Push_GetDeferral
    \/ Push_Payload
    \/ Push_Display
    \/ Push_Complete
    \/ Push_WaitEnter
    \/ Default_Display
    \/ Default_WaitEnter
    \/ RequestChannel_Start
    \/ Platform_Progress
    \/ Platform_Complete
    \/ Tick
    \/ Co_Resume
    \/ Co_LogUri
    \/ Co_LogExpiry
    \/ Co_ReturnChannel
    \/ Co_Failure
    \/ Co_Other
    \/ RequestChannel_wait_for
    \/ RequestChannel_Cancel
    \/ RequestChannel_ReturnNull
    \/ RequestChannel_GetResults
    \/ Launch_CheckChannel
    \/ Launch_Prompt
    \/ Launch_WaitEnter
    \/ Platform_Deliver
    \/ Handler_Display
    \/ Handler_Handled
    \/ Main_UnregisterActivator

Spec == Init /\ [][Next]_vars

\* ======================================================================
\* Properties
\* ======================================================================
\* positions of main() after RequestChannel() has returned into `channel`
AfterRequest == {"CheckChannel", "LaunchPrompt", "LaunchWaitEnter", "UnregisterActivator", "Done"}
\* positions of main() after the if (channel) statement
AfterCheck == {"LaunchPrompt", "LaunchWaitEnter", "UnregisterActivator", "Done"}
\* wait_for returned without the task being Completed
TimedOut == waitStatus \notin {"None", "Completed"}
IsRetryLog(e) == e.op = "log:BackOffRetry"
IsRetrySignal(a) == a.status = "InProgressRetry"
IsInfoSignal(a) == a.status = "InProgress"
RetryLogged == [i \in DOMAIN SelectSeq(cbTrace, IsRetryLog) |->
                  SelectSeq(cbTrace, IsRetryLog)[i].arg]
RetrySignalled == [i \in DOMAIN SelectSeq(signals, IsRetrySignal) |->
                     SelectSeq(signals, IsRetrySignal)[i].retryCount]

\* C1: in a Push-activated run the Deferral is completed at most once, only after
\* the payload was read from the activation record, decoded and displayed, and a
\* Push-activated run that has reached the end of main has completed it exactly once.
C1_DeferralReleasedOnceAfterProcessing ==
    /\ Count("call:Deferral.Complete") <= 1
    /\ Occurs("call:Deferral.Complete") =>
          /\ activationKind = "Push"
          /\ deferral = "released"
          /\ Count("call:Payload") = 1
          /\ payload = activationPayload
          /\ payloadString = PayloadToString(activationPayload)
          /\ Count("cout:Background") = 1
          /\ Precedes("call:Payload", "call:Deferral.Complete")
          /\ Precedes("cout:Background", "call:Deferral.Complete")
    /\ (activationKind = "Push" /\ pc = "Done") => Count("call:Deferral.Complete") = 1

C1_Witness ==
    /\ activationKind = "Push"
    /\ activationPayload = <<72, 0, 105>>
    /\ pc = "Done"
    /\ Count("call:Deferral.Complete") = 1

\* C2: in a Push-activated run every read of the payload and every display of it
\* happens after GetDeferral and before Deferral.Complete: while the payload is
\* being read and processed the Deferral is held.
C2_DeferralHeldWhilePayloadProcessed ==
    /\ \A i \in Positions("call:Payload") \cup Positions("cout:Background") :
          /\ \E j \in Positions("call:GetDeferral") : j < i
          /\ \A j \in Positions("call:Deferral.Complete") : i < j
    /\ pc \in {"PushDecode", "PushComplete"} => deferral = "held"
    /\ Count("call:GetDeferral") <= 1

C2_Witness ==
    /\ pc = "PushComplete"
    /\ Occurs("call:Payload")
    /\ Occurs("cout:Background")
    /\ deferral = "held"

\* C3: when wait_for returns without the task being Completed (which happens only
\* once the 300 s have expired), RequestChannel calls Cancel once and returns null,
\* PushReceived is never subscribed, and main displays the error message.
C3_TimeoutCancelsAndReturnsNull ==
    TimedOut =>
       /\ elapsed = TimeoutSeconds
       /\ subscriptions = <<>>
       /\ ~Occurs("call:PushReceived")
       /\ Count("call:task.Cancel") = (IF pc = "Cancel" THEN 0 ELSE 1)
       /\ pc \in AfterRequest => (channel = Null /\ ~channelAlive)
       /\ pc \in AfterCheck => Count("cout:ErrorObtainingChannelURI") = 1

C3_Witness ==
    /\ TimedOut
    /\ pc = "LaunchWaitEnter"
    /\ opStatus = "Started"
    /\ Occurs("call:task.Cancel")
    /\ Occurs("cout:ErrorObtainingChannelURI")

\* C4: on a Launch, when RequestChannelAsync co_returns the channel of a
\* CompletedSuccess result before the timeout has expired, main subscribes
\* PushReceived exactly once, on that channel, before it prompts and waits for Enter.
C4_SuccessSubscribesOnceOnReturnedChannel ==
    /\ Count("call:PushReceived") <= 1
    /\ (/\ opResult.status = "CompletedSuccess"
        /\ completedAt >= 0
        /\ completedAt < TimeoutSeconds) =>
          /\ activationKind = "Launch"
          /\ taskResult = opResult.channel
          /\ pc \in AfterRequest => channel = opResult.channel
          /\ pc \in AfterCheck =>
                /\ subscriptions = <<opResult.channel>>
                /\ Count("call:PushReceived") = 1
                /\ trace[Min(Positions("call:PushReceived"))].arg = opResult.channel
          /\ Precedes("call:PushReceived", "cout:PressEnterAnyTime")
          /\ Precedes("call:PushReceived", "cin:ignore")

C4_Witness ==
    /\ pc = "LaunchWaitEnter"
    /\ opResult = [status |-> "CompletedSuccess", channel |-> "channelX"]
    /\ completedAt >= 0
    /\ completedAt < TimeoutSeconds
    /\ subscriptions = <<"channelX">>

\* C5: for an activation kind other than Launch and Push, no channel operation is
\* created, PushReceived is not subscribed, no Deferral is acquired, and once the
\* default branch has run the "Unexpected activation type" message was displayed
\* exactly once.
C5_OtherKindsOnlyDisplayUnexpected ==
    activationKind \notin {"Launch", "Push"} =>
       /\ ~Occurs("call:CreateChannelAsync")
       /\ ~Occurs("call:PushReceived")
       /\ ~Occurs("call:GetDeferral")
       /\ opStatus = "None"
       /\ taskStatus = "None"
       /\ subscriptions = <<>>
       /\ deferral = "none"
       /\ pc \in {"RegisterActivator", "GetActivatedEventArgs", "Switch", "DefaultDisplay",
                  "DefaultWaitEnter", "UnregisterActivator", "Done"}
       /\ pc \in {"DefaultWaitEnter", "UnregisterActivator", "Done"} =>
             Count("cout:UnexpectedActivationType") = 1

C5_Witness ==
    /\ activationKind = "Protocol"
    /\ pc = "Done"
    /\ Occurs("cout:UnexpectedActivationType")

\* C6: every foreground delivery whose callback has returned is marked handled,
\* whatever main is doing meanwhile.
C6_ForegroundDeliveriesHandled ==
    /\ \A i \in DOMAIN notifs : notifs[i].at = "returned" => notifs[i].handled
    /\ CbCount("call:Handled") = Cardinality({i \in DOMAIN notifs : notifs[i].handled})

C6_Witness ==
    /\ Len(notifs) = 2
    /\ \A i \in DOMAIN notifs : notifs[i].at = "returned" /\ notifs[i].handled
    /\ pc = "LaunchWaitEnter"

\* C7: the negotiator has written one informational message per InProgress signal
\* and one retry warning per InProgressRetry signal, carrying the signals' retry
\* counts in order; a signal makes it neither create a second channel operation
\* nor cancel; and after a CompletedSuccess result it co_returns that channel.
C7_ProgressLoggedAndChannelReturned ==
    /\ CbCount("cout:RequestInProgress") = Len(SelectSeq(signals, IsInfoSignal))
    /\ RetryLogged = RetrySignalled
    /\ Count("call:CreateChannelAsync") <= 1
    /\ Occurs("call:task.Cancel") => TimedOut
    /\ opStatus # "Canceled"
    /\ (coPc = "done" /\ opResult.status = "CompletedSuccess") =>
          /\ taskResult = opResult.channel
          /\ taskResult \in Channels
          /\ CbCount("cout:ChannelURI") = 1
          /\ CbCount("cout:ChannelExpiration") = 1

C7_Witness ==
    /\ signals = <<[status |-> "InProgress", retryCount |-> 0],
                   [status |-> "InProgressRetry", retryCount |-> 2]>>
    /\ coPc = "done"
    /\ opResult = [status |-> "CompletedSuccess", channel |-> "channelX"]
    /\ taskResult = "channelX"
    /\ CbCount("cout:RequestInProgress") = 1
    /\ RetryLogged = <<2>>

\* C8: after a result other than CompletedSuccess the coroutine has logged the
\* error and co_returned null; only one channel operation was ever created, no
\* subscription exists, main's channel is null and main displays the error message
\* before it prompts and waits for Enter.
C8_FailureLogsReturnsNullNoRetry ==
    (coPc = "done" /\ opResult.status # "CompletedSuccess") =>
       /\ CbCount("log:CriticalFailure") = (IF opResult.status = "CompletedFailure" THEN 1 ELSE 0)
       /\ CbCount("log:OtherFailure") = (IF opResult.status = "CompletedFailure" THEN 0 ELSE 1)
       /\ ~CbOccurs("cout:ChannelURI")
       /\ taskResult = Null
       /\ Count("call:CreateChannelAsync") = 1
       /\ subscriptions = <<>>
       /\ ~Occurs("call:PushReceived")
       /\ pc \in AfterRequest => channel = Null
       /\ pc \in AfterCheck => Count("cout:ErrorObtainingChannelURI") = 1
       /\ Precedes("cout:ErrorObtainingChannelURI", "cout:PressEnterAnyTime")
       /\ Precedes("cout:ErrorObtainingChannelURI", "cin:ignore")

C8_Witness ==
    /\ pc = "LaunchWaitEnter"
    /\ waitStatus = "Completed"
    /\ opResult.status = "CompletedFailure"
    /\ CbOccurs("log:CriticalFailure")
    /\ Occurs("cout:ErrorObtainingChannelURI")

\* C9: Cancel is called only after a timeout, and once RequestChannel has returned
\* null because of the timeout the channel operation created by CreateChannelAsync
\* is no longer pending.
C9_CancelReachesChannelOperation ==
    /\ Occurs("call:task.Cancel") => (TimedOut /\ elapsed = TimeoutSeconds)
    /\ (TimedOut /\ pc \in AfterRequest) => opStatus # "Started"

\* C10: RegisterActivator is called, before the activation record is read, exactly
\* when IsActivatorSupported(PushTrigger | ComActivator) answers true; when it
\* answers false nothing is registered and nothing is written, and in both cases
\* main reads the activation record once and dispatches on its kind.
C10_RegisterIffSupported ==
    /\ pc # "RegisterActivator" =>
          /\ Count("call:RegisterActivator") = (IF supportedBoth THEN 1 ELSE 0)
          /\ pc \notin {"UnregisterActivator", "Done"} =>
                registered = (IF supportedBoth THEN {"PushTrigger", "ComActivator"} ELSE {})
    /\ Precedes("call:RegisterActivator", "call:GetActivatedEventArgs")
    /\ (pc = "GetActivatedEventArgs" /\ ~supportedBoth) => trace = <<>>
    /\ pc \notin {"RegisterActivator", "GetActivatedEventArgs"} =>
          /\ Count("call:GetActivatedEventArgs") = 1
          /\ kind = activationKind
    /\ pc \notin {"RegisterActivator", "GetActivatedEventArgs", "Switch",
                  "UnregisterActivator", "Done"} =>
          CASE activationKind = "Launch" ->
                  pc \in {"RequestChannel", "wait_for", "Cancel", "ReturnNull", "GetResults",
                          "CheckChannel", "LaunchPrompt", "LaunchWaitEnter"}
            [] activationKind = "Push" ->
                  pc \in {"PushGetDeferral", "PushPayload", "PushDecode", "PushComplete",
                          "PushWaitEnter"}
            [] OTHER -> pc \in {"DefaultDisplay", "DefaultWaitEnter"}

C10_Witness ==
    /\ ~supportedBoth
    /\ pc = "PushComplete"
    /\ registered = {}
    /\ ~Occurs("call:RegisterActivator")

\* C11: the unregistration at the end of main names the ComActivator only; once
\* RegisterActivator has registered the PushTrigger it stays registered in every
\* later state, the end of the process included, for every activation kind and
\* every outcome of the negotiation.
C11_PushTriggerStaysRegistered ==
    /\ (pc # "RegisterActivator" /\ supportedBoth) => "PushTrigger" \in registered
    /\ \A i \in Positions("call:UnregisterActivator") : trace[i].arg = {"ComActivator"}
    /\ pc = "Done" =>
          registered = (IF ~supportedBoth THEN {}
                        ELSE IF supportedCom THEN {"PushTrigger"}
                        ELSE {"PushTrigger", "ComActivator"})

C11_Witness ==
    /\ pc = "Done"
    /\ activationKind = "Launch"
    /\ TimedOut
    /\ Occurs("call:UnregisterActivator")
    /\ registered = {"PushTrigger"}

\* ---------------------------------------------------------------- fairness
\* The steps of main's thread. Each of them finishes once it can: the platform
\* calls return, and the user eventually presses Enter.
MainStep ==
    \/ Main_RegisterActivator
    \/ Main_GetActivatedEventArgs
    \/ Main_Switch
    \/ Push_GetDeferral
    \/ Push_Payload
    \/ Push_Display
    \/ Push_Complete
    \/ Push_WaitEnter
    \/ Default_Display
    \/ Default_WaitEnter
    \/ RequestChannel_Start
    \/ RequestChannel_wait_for
    \/ RequestChannel_Cancel
    \/ RequestChannel_ReturnNull
    \/ RequestChannel_GetResults
    \/ Launch_CheckChannel
    \/ Launch_Prompt
    \/ Launch_WaitEnter
    \/ Main_UnregisterActivator

\* main's thread keeps running and the timer of wait_for keeps counting; nothing
\* is assumed of the platform's channel operation or of deliveries.
FairSpec == Spec /\ WF_vars(MainStep) /\ WF_vars(Tick)

\* line 178: main has no return statement; falling off its end returns 0.
ExitCode == IF pc = "Done" THEN 0 ELSE -1

\* C12: when main's thread keeps running, the user eventually presses Enter and
\* the timer of wait_for keeps counting, every run reaches the end of main, with
\* exit code 0, for every activation kind and every outcome of the negotiation.
C12_EveryRunTerminates == <>(pc = "Done" /\ ExitCode = 0)

C12_Witness ==
    /\ pc = "Done"
    /\ activationKind = "Launch"
    /\ TimedOut
    /\ opStatus = "Started"

\* C13 as stated: every run that reaches the end of main has called
\* UnregisterActivator(ComActivator), as its last step.
C13_EveryPathUnregisters ==
    pc = "Done" =>
       /\ Count("call:UnregisterActivator") = 1
       /\ trace[Len(trace)].op = "call:UnregisterActivator"

\* C13, amended: every run passes through the unregistration step after its branch
\* has finished (its cin.ignore has returned) and immediately before the end;
\* the step calls UnregisterActivator(ComActivator) exactly when
\* IsActivatorSupported(ComActivator) answers true and is skipped otherwise, and
\* nothing is done on main's thread after it.
C13_UnregisterStepLastWhenSupported ==
    /\ Count("call:UnregisterActivator") = (IF pc = "Done" /\ supportedCom THEN 1 ELSE 0)
    /\ pc \in {"UnregisterActivator", "Done"} => Count("cin:ignore") = 1
    /\ pc = "UnregisterActivator" => trace[Len(trace)].op = "cin:ignore"
    /\ pc = "Done" =>
          IF supportedCom
          THEN /\ trace[Len(trace)].op = "call:UnregisterActivator"
               /\ trace[Len(trace) - 1].op = "cin:ignore"
               /\ "ComActivator" \notin registered
          ELSE trace[Len(trace)].op = "cin:ignore"

C13_Witness ==
    /\ pc = "Done"
    /\ supportedCom
    /\ activationKind = "Launch"
    /\ subscriptions # <<>>
    /\ trace[Len(trace)].op = "call:UnregisterActivator"

C15_ChannelAliveWhileWaiting ==
    /\ (subscriptions # <<>> /\ pc \in {"LaunchPrompt", "LaunchWaitEnter"}) =>
          /\ channelAlive
          /\ channel # Null
          /\ channel = subscriptions[1]
    /\ (subscriptions # <<>> /\ ~channelAlive) =>
          /\ Occurs("cin:ignore")
          /\ pc \in {"UnregisterActivator", "Done"}
    /\ notifs # <<>> => subscriptions # <<>>

C15_Witness ==
    /\ pc = "LaunchWaitEnter"
    /\ channelAlive
    /\ subscriptions = <<"channelY">>
    /\ Len(notifs) = 1

\* C16: CreateChannelAsync is called at most once in a run, so at most one channel
\* operation exists; and main is past task.wait_for (towards the subscription or
\* the error message) only when the task has completed or the 300 s have expired,
\* in which case the task is cancelled before RequestChannel returns.
C16_OneNegotiationAndMainWaits ==
    /\ Count("call:CreateChannelAsync") <= 1
    /\ Count("call:CreateChannelAsync") = (IF opStatus = "None" THEN 0 ELSE 1)
    /\ pc \in {"Cancel", "ReturnNull", "GetResults"} \cup AfterRequest
          /\ activationKind = "Launch" =>
          /\ waitStatus # "None"
          /\ waitStatus = "Completed" =>
                (taskStatus = "Completed" /\ opStatus = "Completed" /\ pc # "Cancel")
          /\ TimedOut => (elapsed = TimeoutSeconds /\ pc # "GetResults")
    /\ pc \in AfterRequest /\ activationKind = "Launch" =>
          /\ taskStatus \in {"Completed", "Canceled"}
          /\ TimedOut => Count("call:task.Cancel") = 1
    /\ (Occurs("call:PushReceived") \/ Occurs("cout:ErrorObtainingChannelURI")) =>
          pc \in AfterCheck

C16_Witness ==
    /\ pc = "LaunchPrompt"
    /\ waitStatus = "Completed"
    /\ Len(signals) = 2
    /\ Count("call:CreateChannelAsync") = 1

\* C17: a Push-activated run creates no channel operation and subscribes no
\* PushReceived handler, and displays the notification it was activated for;
\* channel operations, subscriptions and foreground deliveries exist only in
\* Launch-activated runs.
C17_PushRunOnlyDisplays ==
    /\ activationKind = "Push" =>
          /\ ~Occurs("call:CreateChannelAsync")
          /\ ~Occurs("call:PushReceived")
          /\ opStatus = "None"
          /\ taskStatus = "None"
          /\ subscriptions = <<>>
          /\ notifs = <<>>
          /\ cbTrace = <<>>
          /\ pc \in {"PushWaitEnter", "UnregisterActivator", "Done"} =>
                /\ Count("cout:Background") = 1
                /\ trace[Min(Positions("cout:Background"))].arg =
                      CStr(PayloadToString(activationPayload))
    /\ (\/ Occurs("call:CreateChannelAsync")
        \/ Occurs("call:PushReceived")
        \/ opStatus # "None"
        \/ subscriptions # <<>>
        \/ notifs # <<>>) => activationKind = "Launch"

C17_Witness ==
    /\ activationKind = "Push"
    /\ activationPayload = <<200>>
    /\ pc = "Done"
    /\ Occurs("cout:Background")
    /\ ~Occurs("call:CreateChannelAsync")

\* C18: UnregisterActivator(ComActivator) is called at the end of a run only if
\* RegisterActivator was called at its start, whatever the two answers of
\* IsActivatorSupported are.
C18_UnregistersOnlyWhatItRegistered ==
    Occurs("call:UnregisterActivator") => Occurs("call:RegisterActivator")

\* C19: a run in which RequestChannel returned null after the timeout (so that
\* main displays the error message) never writes the success output, the channel
\* URI and its expiration, for that request.
C19_NullReturnNeverLogsSuccess ==
    (TimedOut /\ pc \in AfterRequest) =>
       /\ ~CbOccurs("cout:ChannelURI")
       /\ ~CbOccurs("cout:ChannelExpiration")

====
